---------------------------- MODULE Spec2Model ----------------------------
(***************************************************************************)
(* A model of the ZAM value layer of src/ZVal.h (the reference-counted     *)
(* heap behind ZAMValUnion cells, ZAM_vector and ZAM_record), of the       *)
(* statement nodes of src/StmtBase.h and of the analysis driver declared   *)
(* in src/ScriptAnaly.h.  Each part has its own specification; the         *)
(* variables of the other parts stay as they are initialised.              *)
(*                                                                         *)
(* A ZAMValUnion is an untagged cell: the model keeps its bits as a        *)
(* number (0 is the all-zero cell, i.e. the nil pointer when read as a     *)
(* managed value; k > 0 is the pointer to object k when read as a managed  *)
(* value, the scalar k otherwise).                                         *)
(***************************************************************************)
EXTENDS Integers, Sequences, FiniteSets, TLC

\* ------------------------------------------------------------------ bounds
NObj   == 2      \* heap objects 1..NObj
MaxLen == 2      \* largest vector the model grows
MaxRc  == 2      \* largest reference count an object reaches
NStmt  == 3      \* statement nodes 1..NStmt
MaxAccess == 1   \* largest access count a statement reaches
NFunc  == 2      \* functions 1..NFunc of the script

Nil   == 0
Objs  == 1..NObj
Bits  == 0..NObj

\* ------------------------------------------------------------------- types
NullT == "null"
Types == {"any", "void", "int", "string"}

\* zeek::IsManagedType: reference-counted kinds ("any" holds a Val*).
IsManagedType(t) == t \in {"any", "string"}

\* The yield types SetYieldType may still replace.
IsUnsetYield(t) == t = NullT \/ t = "any" \/ t = "void"

VARIABLES
    zvec,          \* ZAM_vector::zvec, a sequence of cells
    general_yt,    \* ZAM_vector::general_yt
    managed_yt,    \* ZAM_vector::managed_yt
    vecAlive,      \* FALSE once ~ZAM_vector has run
    rc,            \* Obj::ref_cnt of every heap object (0: not allocated / freed)
    crashed,       \* the process aborted on a use of a freed object
    last,          \* the last call and what it returned and released
    rzvec,         \* ZAM_record::zvec, one cell per field
    is_in_record,  \* ZAM_record::is_in_record
    recAlive,      \* FALSE once ~ZAM_record has run
    error,         \* the caller's flag that Lookup(field, error) writes
    recent,        \* per field, the most recent of Assign/DeleteField/SetField
    uv,            \* the Val handed to ZAMValUnion(v, t) (Nil: a null pointer)
    ut,            \* the type t the cell is built and read with
    ucell,         \* the ZAMValUnion built from uv
    ucellLive,     \* the cell holds its reference (built, not yet released)
    uhandle,       \* the IntrusivePtr ToVal returned (Nil: no value)
    uhandleLive,   \* the caller still holds uhandle
    ubefore,       \* the reference counts before the conversion
    upc,           \* "idle", "built" (constructed), "converted" (ToVal done)
    nstmts,        \* the statement nodes constructed so far are 1..nstmts
    original,      \* Stmt::original of every node (NoStmt: nullptr)
    stage,         \* the transformation stage of every node
    access_count,  \* Stmt::access_count of every node
    stmt_refs,     \* Obj::ref_cnt of every node
    dup_of,        \* the node a node was made from by Duplicate (NoStmt: none)
    analysis_options,     \* the AnalyOpt flags in force
    recursive,            \* the functions that do call themselves
    body_stage,           \* per function, the stage of FuncInfo::body
    ran,                  \* per function, the passes completed on it, in order
    non_recursive_funcs,  \* the functions known not to be recursive
    driver                \* where analyze_scripts is: pass, function, running

vecVars == <<zvec, general_yt, managed_yt, vecAlive>>
recVars == <<rzvec, is_in_record, recAlive, error, recent>>
unionVars == <<uv, ut, ucell, ucellLive, uhandle, uhandleLive, ubefore, upc>>
stmtVars == <<nstmts, original, stage, access_count, stmt_refs, dup_of>>
analyVars == <<analysis_options, recursive, body_stage, ran,
               non_recursive_funcs, driver>>
restVars == <<unionVars, stmtVars, analyVars>>
vars == <<vecVars, rc, crashed, last, recVars, restVars>>

\* ------------------------------------------------------------------- heap
ZeroCell == Nil       \* ZAMValUnion(): managed_val = nullptr

\* zeek::Ref
Ref(h, o) == [h EXCEPT ![o] = @ + 1]

\* zeek::Unref: a no-op on the null pointer; dropping the last reference
\* frees the object.  On a freed object the decrement is a use after free:
\* the run either goes on (the count stays 0 here) or aborts, see Return.
Unref(h, o) == IF o = Nil \/ h[o] = 0 THEN h ELSE [h EXCEPT ![o] = @ - 1]

\* DeleteManagedType as it would be if it dropped the pointer without Unref.
DeleteManagedType_Leaks(h, c) == h

\* DeleteManagedType(v): Unref(v.managed_val)
DeleteManagedType(h, c) == Unref(h, c)

\* The objects a DeleteManagedType of cell c hands to Unref.
Released(c) == IF c = Nil THEN <<>> ELSE <<c>>

\* Unref is handed an object that has no reference left.
UseAfterFree(h, c) == c # Nil /\ h[c] = 0

\* The heap as the callee sees it when the caller passes, in a managed cell,
\* a reference of its own to object v.
WithArg(h, v, managed) == IF managed /\ v # Nil THEN Ref(h, v) ELSE h

\* The number of elements of a sequence of cells that point to object o.
RECURSIVE Count(_, _)
Count(s, o) == IF s = <<>> THEN 0
               ELSE (IF Head(s) = o THEN 1 ELSE 0) + Count(Tail(s), o)

Zeros(k) == [i \in 1..k |-> ZeroCell]

NoCall == [op |-> "new", n |-> 0, v |-> Nil, yt |-> NullT, ret |-> TRUE, rel |-> <<>>,
           len0 |-> 0]

\* The end of a call on the vector: it returns with the new contents and
\* heap, or, when it used a freed object, it may abort instead.
Return(uaf, zv, h, call) ==
    \/ /\ zvec' = zv
       /\ rc' = h
       /\ last' = call
       /\ UNCHANGED crashed
    \/ /\ uaf
       /\ crashed' = TRUE
       /\ last' = [call EXCEPT !.op = "abort"]
       /\ UNCHANGED <<zvec, rc>>

\* ------------------------------------------------------------- ZAM_vector
IsManagedYieldType == managed_yt # NullT

Size == Len(zvec)

\* The record of a call: its name, its index and value arguments (yt for
\* SetYieldType), what it returned, the objects it handed to Unref, in
\* order, and the Size() it found.
Call(op, n, v, ret, rel) ==
    [op |-> op, n |-> n, v |-> IF op = "SetYieldType" THEN Nil ELSE v,
     yt |-> IF op = "SetYieldType" THEN v ELSE NullT, ret |-> ret, rel |-> rel,
     len0 |-> Len(zvec)]

\* ZAM_vector(vv, yt, n)
ZAM_vector ==
    /\ \E n \in 0..1 : zvec = Zeros(n)
    /\ general_yt \in Types \cup {NullT}
    /\ managed_yt = IF general_yt # NullT /\ IsManagedType(general_yt)
                    THEN general_yt ELSE NullT
    /\ vecAlive = TRUE

\* SetYieldType without its test of the current yield type.
SetYieldType_Unguarded(yt) ==
    /\ vecAlive /\ ~crashed
    /\ managed_yt' = IF IsManagedType(yt) THEN yt ELSE NullT
    /\ general_yt' = yt
    /\ last' = Call("SetYieldType", 0, yt, TRUE, <<>>)
    /\ UNCHANGED <<zvec, vecAlive, rc, crashed, recVars, restVars>>

\* SetYieldType(yt)
SetYieldType(yt) ==
    /\ vecAlive /\ ~crashed
    /\ IF IsUnsetYield(general_yt)
       THEN /\ managed_yt' = IF IsManagedType(yt) THEN yt ELSE NullT
            /\ general_yt' = yt
       ELSE UNCHANGED <<general_yt, managed_yt>>
    /\ last' = Call("SetYieldType", 0, yt, TRUE, <<>>)
    /\ UNCHANGED <<zvec, vecAlive, rc, crashed, recVars, restVars>>

\* GrowVector(size): resize, the new slots zeroed
GrowVector(zv, size) == zv \o Zeros(size - Len(zv))

\* SetManagedElement(n, v): release the occupant, store v, and take a
\* reference of the container's own on it; false when v was never set.
SetManagedElement(zv, h, n, v) ==
    LET old == zv[n + 1]
        h1  == DeleteManagedType(h, old)
    IN  [zv  |-> [zv EXCEPT ![n + 1] = v],
         h   |-> IF v = Nil THEN h1 ELSE Ref(h1, v),
         ret |-> v # Nil,
         rel |-> Released(old),
         uaf |-> UseAfterFree(h, old) \/ UseAfterFree(h1, v)]

\* DeleteMembers(): release every element, in order.
RECURSIVE DeleteMembers(_, _)
DeleteMembers(h, s) ==
    IF s = <<>> THEN [h |-> h, rel |-> <<>>, uaf |-> FALSE]
    ELSE LET r == DeleteMembers(DeleteManagedType(h, Head(s)), Tail(s))
         IN  [h   |-> r.h,
              rel |-> Released(Head(s)) \o r.rel,
              uaf |-> UseAfterFree(h, Head(s)) \/ r.uaf]

\* The values a caller may pass: for a managed yield type a pointer (nil, or
\* an object it holds a reference to), otherwise any scalar.
PassOk(v) == IsManagedYieldType /\ v # Nil => rc[v] < MaxRc

\* SetElement growing with copies of v instead of zeroed slots.
SetElement_FillWithValue(n, v) ==
    /\ vecAlive /\ ~crashed
    /\ PassOk(v)
    /\ LET m   == IsManagedYieldType
           h0  == WithArg(rc, v, m)
           zv  == IF Len(zvec) <= n
                  THEN zvec \o [i \in 1..(n + 1 - Len(zvec)) |-> v] ELSE zvec
           old == zv[n + 1]
       IN  Return(m /\ UseAfterFree(h0, old),
                  [zv EXCEPT ![n + 1] = v],
                  IF m THEN DeleteManagedType(h0, old) ELSE h0,
                  Call("SetElement", n, v, TRUE, IF m THEN Released(old) ELSE <<>>))
    /\ UNCHANGED <<general_yt, managed_yt, vecAlive, recVars, restVars>>

\* SetElement taking a reference of its own on v, as CopyElement does.
SetElement_Acquires(n, v) ==
    /\ vecAlive /\ ~crashed
    /\ PassOk(v)
    /\ LET m   == IsManagedYieldType
           h0  == WithArg(rc, v, m)
           zv  == IF Len(zvec) <= n THEN GrowVector(zvec, n + 1) ELSE zvec
           old == zv[n + 1]
       IN  Return(m /\ UseAfterFree(h0, old),
                  [zv EXCEPT ![n + 1] = v],
                  IF m THEN WithArg(DeleteManagedType(h0, old), v, m) ELSE h0,
                  Call("SetElement", n, v, TRUE, IF m THEN Released(old) ELSE <<>>))
    /\ UNCHANGED <<general_yt, managed_yt, vecAlive, recVars, restVars>>

\* SetElement(n, v); n counts from 0, the sequence from 1
SetElement(n, v) ==
    /\ vecAlive /\ ~crashed
    /\ PassOk(v)
    /\ LET m   == IsManagedYieldType
           h0  == WithArg(rc, v, m)
           zv  == IF Len(zvec) <= n THEN GrowVector(zvec, n + 1) ELSE zvec
           old == zv[n + 1]
       IN  Return(m /\ UseAfterFree(h0, old),
                  [zv EXCEPT ![n + 1] = v],
                  IF m THEN DeleteManagedType(h0, old) ELSE h0,
                  Call("SetElement", n, v, TRUE, IF m THEN Released(old) ELSE <<>>))
    /\ UNCHANGED <<general_yt, managed_yt, vecAlive, recVars, restVars>>

\* CopyElement without its test of managed_yt: always the plain store.
CopyElement_PlainStore(n, v) ==
    /\ vecAlive /\ ~crashed
    /\ PassOk(v)
    /\ LET zv == IF Len(zvec) <= n THEN GrowVector(zvec, n + 1) ELSE zvec
       IN  Return(FALSE, [zv EXCEPT ![n + 1] = v], rc,
                  Call("CopyElement", n, v, TRUE, <<>>))
    /\ UNCHANGED <<general_yt, managed_yt, vecAlive, recVars, restVars>>

\* CopyElement(n, v): the caller keeps the reference it holds on v
CopyElement(n, v) ==
    /\ vecAlive /\ ~crashed
    /\ PassOk(v)
    /\ LET m   == IsManagedYieldType
           h0  == WithArg(rc, v, m)
           zv  == IF Len(zvec) <= n THEN GrowVector(zvec, n + 1) ELSE zvec
           sme == SetManagedElement(zv, h0, n, v)
       IN  IF m
           THEN Return(sme.uaf, sme.zv, Unref(sme.h, v),
                       Call("CopyElement", n, v, sme.ret, sme.rel))
           ELSE Return(FALSE, [zv EXCEPT ![n + 1] = v], rc,
                       Call("CopyElement", n, v, TRUE, <<>>))
    /\ UNCHANGED <<general_yt, managed_yt, vecAlive, recVars, restVars>>

\* DeleteIfManaged(n)
DeleteIfManaged(h, n) == IF IsManagedYieldType THEN DeleteManagedType(h, zvec[n + 1]) ELSE h

InsertAt(zv, i, c) == SubSeq(zv, 1, i) \o <<c>> \o SubSeq(zv, i + 1, Len(zv))


\* Insert as it would be if an index past the end were honoured, the slots
\* before it zero-filled.
Insert_PadsToIndex(index, v) ==
    /\ vecAlive /\ ~crashed
    /\ PassOk(v)
    /\ Len(zvec) < MaxLen
    /\ LET m  == IsManagedYieldType
           h0 == WithArg(rc, v, m)
       IN  IF index < Len(zvec)
           THEN Return(m /\ UseAfterFree(h0, zvec[index + 1]),
                       InsertAt(zvec, index, v),
                       IF m THEN DeleteIfManaged(h0, index) ELSE h0,
                       Call("Insert", index, v, TRUE,
                            IF m THEN Released(zvec[index + 1]) ELSE <<>>))
           ELSE Return(FALSE, zvec \o Zeros(index - Len(zvec)) \o <<v>>, h0,
                       Call("Insert", index, v, TRUE, <<>>))
    /\ UNCHANGED <<general_yt, managed_yt, vecAlive, recVars, restVars>>

\* Insert(index, element)
Insert(index, v) ==
    /\ vecAlive /\ ~crashed
    /\ PassOk(v)
    /\ Len(zvec) < MaxLen
    /\ LET m  == IsManagedYieldType
           h0 == WithArg(rc, v, m)
       IN  IF index < Len(zvec)
           THEN Return(m /\ UseAfterFree(h0, zvec[index + 1]),
                       InsertAt(zvec, index, v),
                       IF m THEN DeleteIfManaged(h0, index) ELSE h0,
                       Call("Insert", index, v, TRUE,
                            IF m THEN Released(zvec[index + 1]) ELSE <<>>))
           ELSE Return(FALSE, Append(zvec, v), h0,
                       Call("Insert", index, v, TRUE, <<>>))
    /\ UNCHANGED <<general_yt, managed_yt, vecAlive, recVars, restVars>>

\* Remove without the release of the element it erases.
Remove_NoRelease(index) ==
    /\ vecAlive /\ ~crashed
    /\ index < Len(zvec)
    /\ Return(FALSE,
              SubSeq(zvec, 1, index) \o SubSeq(zvec, index + 2, Len(zvec)),
              rc,
              Call("Remove", index, Nil, TRUE, <<>>))
    /\ UNCHANGED <<general_yt, managed_yt, vecAlive, recVars, restVars>>

\* Remove(index), index < Size()
Remove(index) ==
    /\ vecAlive /\ ~crashed
    /\ index < Len(zvec)
    /\ LET m == IsManagedYieldType
       IN  Return(m /\ UseAfterFree(rc, zvec[index + 1]),
                  SubSeq(zvec, 1, index) \o SubSeq(zvec, index + 2, Len(zvec)),
                  IF m THEN DeleteIfManaged(rc, index) ELSE rc,
                  Call("Remove", index, Nil, TRUE,
                       IF m THEN Released(zvec[index + 1]) ELSE <<>>))
    /\ UNCHANGED <<general_yt, managed_yt, vecAlive, recVars, restVars>>

\* Resize(new_num_elements): std::vector::resize
Resize(n) ==
    /\ vecAlive /\ ~crashed
    /\ Return(FALSE,
              IF n <= Len(zvec) THEN SubSeq(zvec, 1, n) ELSE zvec \o Zeros(n - Len(zvec)),
              rc,
              Call("Resize", n, Nil, TRUE, <<>>))
    /\ UNCHANGED <<general_yt, managed_yt, vecAlive, recVars, restVars>>

\* ~ZAM_vector()
Destroy ==
    /\ vecAlive /\ ~crashed
    /\ LET dm == DeleteMembers(rc, zvec)
       IN  \/ /\ vecAlive' = FALSE
              /\ zvec' = <<>>
              /\ rc' = IF IsManagedYieldType THEN dm.h ELSE rc
              /\ last' = Call("~ZAM_vector", 0, Nil, TRUE,
                              IF IsManagedYieldType THEN dm.rel ELSE <<>>)
              /\ UNCHANGED crashed
           \/ /\ IsManagedYieldType /\ dm.uaf
              /\ crashed' = TRUE
              /\ last' = Call("abort", 0, Nil, TRUE, <<>>)
              /\ UNCHANGED <<zvec, rc, vecAlive>>
    /\ UNCHANGED <<general_yt, managed_yt, recVars, restVars>>

\* ------------------------------------------------------------- ZAM_record
\* The record type behind the container (RecordType): field 0 is an optional
\* int, field 1 an optional string, field 2 a string with a &default value.
rt == << [managed |-> FALSE, hasDefault |-> FALSE, dflt |-> Nil],
         [managed |-> TRUE,  hasDefault |-> FALSE, dflt |-> Nil],
         [managed |-> TRUE,  hasDefault |-> TRUE,  dflt |-> 1] >>

\* The fields a later redef adds to the type, both optional: a string and a
\* count.
redef == << [managed |-> TRUE,  hasDefault |-> FALSE, dflt |-> Nil],
            [managed |-> FALSE, hasDefault |-> FALSE, dflt |-> Nil] >>

\* The fields of the type the record was constructed with.
Fields == 0..(Len(rt) - 1)

\* RecordType::FieldDefault(field): the default value, if the field has one
HasDefault(field) == rt[field + 1].hasDefault
FieldDefault(field) == rt[field + 1].dflt

IsInRecord(offset) == is_in_record[offset + 1]

\* is_managed refers to the bitmap of the record type, which covers the
\* fields a redef added
IsManaged(offset) == (rt \o redef)[offset + 1].managed

HasField(field) == IsInRecord(field)

\* What a read of is_in_record[offset] yields: the bit, or, past the end of
\* the bitmap, whatever the memory there holds.
ReadInRecord(offset, stray) ==
    IF offset < Len(is_in_record) THEN IsInRecord(offset) ELSE stray

RCall(op, field, v, ret, rel) ==
    [op |-> op, n |-> field, v |-> v, yt |-> NullT, ret |-> ret, rel |-> rel,
     len0 |-> Len(rzvec)]

\* ZAM_record(rv, rt): one zeroed cell per field of the type, none present
ZAM_record ==
    /\ rzvec = Zeros(Len(rt))
    /\ is_in_record = [i \in 1..Len(rt) |-> FALSE]
    /\ recent = [i \in 1..Len(rt) |-> "none"]
    /\ recAlive = TRUE

\* The values a caller may pass for a field: for a managed field a pointer
\* (nil, or an object it holds a reference to), otherwise any scalar.
FieldOk(field, v) == IsManaged(field) /\ v # Nil => rc[v] < MaxRc

\* Assign as it would be if it released the old cell of any managed field,
\* present or not.
Assign_IgnoresPresence(field, v) ==
    /\ recAlive /\ ~crashed
    /\ FieldOk(field, v)
    /\ LET h0  == WithArg(rc, v, IsManaged(field))
           del == IsManaged(field)
       IN  /\ rc' = IF del THEN Unref(h0, rzvec[field + 1]) ELSE h0
           /\ last' = RCall("Assign", field, v, TRUE,
                            IF del THEN Released(rzvec[field + 1]) ELSE <<>>)
    /\ rzvec' = [rzvec EXCEPT ![field + 1] = v]
    /\ is_in_record' = [is_in_record EXCEPT ![field + 1] = TRUE]
    /\ recent' = [recent EXCEPT ![field + 1] = "Assign"]
    /\ UNCHANGED <<vecVars, crashed, recAlive, error, restVars>>

\* Assign(field, v)
Assign(field, v) ==
    /\ recAlive /\ ~crashed
    /\ FieldOk(field, v)
    /\ LET h0  == WithArg(rc, v, IsManaged(field))
           del == IsInRecord(field) /\ IsManaged(field)
       IN  /\ rc' = IF del THEN Unref(h0, rzvec[field + 1]) ELSE h0
           /\ last' = RCall("Assign", field, v, TRUE,
                            IF del THEN Released(rzvec[field + 1]) ELSE <<>>)
    /\ rzvec' = [rzvec EXCEPT ![field + 1] = v]
    /\ is_in_record' = [is_in_record EXCEPT ![field + 1] = TRUE]
    /\ recent' = [recent EXCEPT ![field + 1] = "Assign"]
    /\ UNCHANGED <<vecVars, crashed, recAlive, error, restVars>>

\* SetField(field), and the caller's part of it: SetField marks the field
\* present and hands out the cell; the caller, who "is expected to deal with
\* memory management", releases the value of a present managed field and
\* writes v, with the reference it holds, into the cell.
SetField(field, v) ==
    /\ recAlive /\ ~crashed
    /\ FieldOk(field, v)
    /\ LET h0  == WithArg(rc, v, IsManaged(field))
           del == IsInRecord(field) /\ IsManaged(field)
       IN  /\ rc' = IF del THEN Unref(h0, rzvec[field + 1]) ELSE h0
           /\ last' = RCall("SetField", field, v, TRUE, <<>>)
    /\ is_in_record' = [is_in_record EXCEPT ![field + 1] = TRUE]
    /\ rzvec' = [rzvec EXCEPT ![field + 1] = v]
    /\ recent' = [recent EXCEPT ![field + 1] = "SetField"]
    /\ UNCHANGED <<vecVars, crashed, recAlive, error, restVars>>

\* SetToDefault(field): with a default, store it (a reference of the
\* container's own) and mark the field present; without, report failure.
SetToDefault(field) ==
    LET d == FieldDefault(field)
    IN  IF ~HasDefault(field)
        THEN [ok |-> FALSE, zv |-> rzvec, inrec |-> is_in_record, h |-> rc]
        ELSE [ok    |-> TRUE,
              zv    |-> [rzvec EXCEPT ![field + 1] = d],
              inrec |-> [is_in_record EXCEPT ![field + 1] = TRUE],
              h     |-> WithArg(rc, d, IsManaged(field))]

\* Lookup with the flag left as the caller set it when the field is found.
Lookup_FlagNotCleared(field) ==
    /\ recAlive /\ ~crashed
    /\ HasDefault(field) => rc[FieldDefault(field)] < MaxRc
    /\ LET std == SetToDefault(field)
       IN  IF IsInRecord(field)
           THEN /\ UNCHANGED <<error, rzvec, is_in_record, rc>>
                /\ last' = RCall("Lookup", field, rzvec[field + 1], TRUE, <<>>)
           ELSE /\ error' = ~std.ok
                /\ rzvec' = std.zv
                /\ is_in_record' = std.inrec
                /\ rc' = std.h
                /\ last' = RCall("Lookup", field, std.zv[field + 1], TRUE, <<>>)
    /\ UNCHANGED <<vecVars, crashed, recAlive, recent, restVars>>

\* Lookup(field, error); the cell it returns is last.v
Lookup(field) ==
    /\ recAlive /\ ~crashed
    /\ HasDefault(field) => rc[FieldDefault(field)] < MaxRc
    /\ LET std == SetToDefault(field)
       IN  IF IsInRecord(field)
           THEN /\ error' = FALSE
                /\ UNCHANGED <<rzvec, is_in_record, rc>>
                /\ last' = RCall("Lookup", field, rzvec[field + 1], TRUE, <<>>)
           ELSE /\ error' = ~std.ok
                /\ rzvec' = std.zv
                /\ is_in_record' = std.inrec
                /\ rc' = std.h
                /\ last' = RCall("Lookup", field, std.zv[field + 1], TRUE, <<>>)
    /\ UNCHANGED <<vecVars, crashed, recAlive, recent, restVars>>

\* DeleteField releasing the cell whether or not the field is present.
DeleteField_IgnoresPresence(field) ==
    /\ recAlive /\ ~crashed
    /\ LET del == IsManaged(field)
       IN  /\ rc' = IF del THEN Unref(rc, rzvec[field + 1]) ELSE rc
           /\ last' = RCall("DeleteField", field, Nil, TRUE,
                            IF del THEN Released(rzvec[field + 1]) ELSE <<>>)
    /\ is_in_record' = [is_in_record EXCEPT ![field + 1] = FALSE]
    /\ recent' = [recent EXCEPT ![field + 1] = "DeleteField"]
    /\ UNCHANGED <<vecVars, crashed, recAlive, error, rzvec, restVars>>

\* DeleteField(field)
DeleteField(field) ==
    /\ recAlive /\ ~crashed
    /\ LET del == IsInRecord(field) /\ IsManaged(field)
       IN  /\ rc' = IF del THEN Unref(rc, rzvec[field + 1]) ELSE rc
           /\ last' = RCall("DeleteField", field, Nil, TRUE,
                            IF del THEN Released(rzvec[field + 1]) ELSE <<>>)
    /\ is_in_record' = [is_in_record EXCEPT ![field + 1] = FALSE]
    /\ recent' = [recent EXCEPT ![field + 1] = "DeleteField"]
    /\ UNCHANGED <<vecVars, crashed, recAlive, error, rzvec, restVars>>

\* Grow(new_size), called when the type has gained fields: zvec.resize and
\* nothing else, the new cells zeroed, is_in_record as long as it was.
Grow(new_size) ==
    /\ recAlive /\ ~crashed
    /\ new_size \in (Len(rzvec) + 1)..(Len(rt) + Len(redef))
    /\ rzvec' = rzvec \o Zeros(new_size - Len(rzvec))
    /\ last' = RCall("Grow", new_size, Nil, TRUE, <<>>)
    /\ UNCHANGED <<vecVars, rc, crashed, recAlive, error, is_in_record, recent, restVars>>

\* A call of HasField(field) on any field the record has a cell for; what
\* it returns is last.ret.
CallHasField(field) ==
    /\ recAlive /\ ~crashed
    /\ field < Len(rzvec)
    /\ \E stray \in BOOLEAN :
          last' = RCall("HasField", field, Nil, ReadInRecord(field, stray), <<>>)
    /\ UNCHANGED <<vecVars, rc, crashed, recVars, restVars>>

\* Delete as it would be if it dropped the cell without releasing it.
Delete_NoRelease(h, field) == h

\* Delete(field): DeleteManagedType(zvec[field])
Delete(h, field) == DeleteManagedType(h, rzvec[field + 1])

\* DeleteManagedMembers(): Delete every field that is present and managed,
\* from field k on.
\* For a field past the presence bitmap (one Grow added) the test reads
\* out of bounds and finds `stray`.
RECURSIVE DeleteManagedMembers(_, _, _)
DeleteManagedMembers(h, k, stray) ==
    IF k >= Len(rzvec) THEN [h |-> h, rel |-> <<>>]
    ELSE LET del == ReadInRecord(k, stray) /\ IsManaged(k)
             r   == DeleteManagedMembers(IF del THEN Delete(h, k) ELSE h,
                                         k + 1, stray)
         IN  [h   |-> r.h,
              rel |-> (IF del THEN Released(rzvec[k + 1]) ELSE <<>>) \o r.rel]

\* ~ZAM_record()
DestroyRecord ==
    /\ recAlive /\ ~crashed
    /\ \E stray \in BOOLEAN :
       LET dm == DeleteManagedMembers(rc, 0, stray)
       IN  /\ rc' = dm.h
           /\ last' = RCall("~ZAM_record", 0, Nil, TRUE, dm.rel)
    /\ recAlive' = FALSE
    /\ UNCHANGED <<vecVars, crashed, error, rzvec, is_in_record, recent, restVars>>

\* ------------------------------------------------------------- ZAMValUnion
\* The managed types a cell is built and read with.
ManagedTypes == {t \in Types : IsManagedType(t)}

\* ZAMValUnion(v, t), t managed: the cell holds the pointer of v, on which
\* it takes a reference of its own; a null v gives the nil pointer.
ZAMValUnion(h, v, t) ==
    IF v = Nil THEN [cell |-> ZeroCell, h |-> h]
    ELSE [cell |-> v, h |-> Ref(h, v)]

\* IsNil(t), t managed: the cell read as a pointer is null
IsNil(c, t) == IsManagedType(t) /\ c = Nil

\* ToVal(t), t managed: a new handle on the object the cell points to, with
\* a reference of its own; no value for the nil cell.
ToVal(h, c, t) ==
    IF IsNil(c, t) THEN [val |-> Nil, h |-> h]
    ELSE [val |-> c, h |-> Ref(h, c)]

\* No conversion under way.
NoUnion ==
    /\ uv = Nil /\ ut = NullT /\ ucell = ZeroCell /\ ucellLive = FALSE
    /\ uhandle = Nil /\ uhandleLive = FALSE
    /\ ubefore = [o \in Objs |-> 0] /\ upc = "idle"

\* The caller builds a cell from v, a null pointer or an object it holds.
Construct(v, t) ==
    /\ upc = "idle"
    /\ v # Nil => rc[v] >= 1
    /\ LET z == ZAMValUnion(rc, v, t)
       IN  ucell' = z.cell /\ rc' = z.h
    /\ uv' = v /\ ut' = t /\ ubefore' = rc
    /\ ucellLive' = TRUE /\ upc' = "built"
    /\ UNCHANGED <<uhandle, uhandleLive, vecVars, crashed, last, recVars, stmtVars, analyVars>>

\* The caller reads the cell back with the type it was built with.
CallToVal ==
    /\ upc = "built" /\ ucellLive
    /\ LET r == ToVal(rc, ucell, ut)
       IN  /\ uhandle' = r.val /\ rc' = r.h
           /\ uhandleLive' = (r.val # Nil)
    /\ upc' = "converted"
    /\ UNCHANGED <<uv, ut, ucell, ucellLive, ubefore, vecVars, crashed, last, recVars, stmtVars, analyVars>>

\* The owner of the cell releases it: DeleteManagedType(cell).
ReleaseCell ==
    /\ upc # "idle" /\ ucellLive
    /\ rc' = DeleteManagedType(rc, ucell)
    /\ ucellLive' = FALSE
    /\ UNCHANGED <<uv, ut, ucell, uhandle, uhandleLive, ubefore, upc,
                   vecVars, crashed, last, recVars, stmtVars, analyVars>>

\* The caller drops the handle ToVal returned: ~IntrusivePtr.
DropHandle ==
    /\ uhandleLive
    /\ rc' = Unref(rc, uhandle)
    /\ uhandleLive' = FALSE
    /\ UNCHANGED <<uv, ut, ucell, ucellLive, uhandle, ubefore, upc,
                   vecVars, crashed, last, recVars, stmtVars, analyVars>>

\* -------------------------------------------------------------------- Stmt
NoStmt == 0
Stmts  == 1..NStmt

\* The statement nodes, as one value: what the operations below take and
\* give back.
Nodes ==
    [nstmts |-> nstmts, original |-> original, stage |-> stage,
     access_count |-> access_count, stmt_refs |-> stmt_refs, dup_of |-> dup_of]

Become(st) ==
    /\ nstmts' = st.nstmts /\ original' = st.original /\ stage' = st.stage
    /\ access_count' = st.access_count /\ stmt_refs' = st.stmt_refs
    /\ dup_of' = st.dup_of

\* No statement constructed yet.
NoStatements ==
    /\ nstmts = 0
    /\ original = [n \in Stmts |-> NoStmt]
    /\ stage = [n \in Stmts |-> "none"]
    /\ access_count = [n \in Stmts |-> 0]
    /\ stmt_refs = [n \in Stmts |-> 0]
    /\ dup_of = [n \in Stmts |-> NoStmt]

\* The record of a call on statement n that returned statement ret.
SCall(op, n, ret) ==
    [op |-> op, n |-> n, v |-> ret, yt |-> NullT, ret |-> TRUE, rel |-> <<>>,
     len0 |-> 0]

\* Stmt(tag): the next node, with no original link, no accesses and the one
\* reference of whoever constructed it.
NewStmt(st, stg, dup) ==
    LET n == st.nstmts + 1
    IN  [nstmts       |-> n,
         original     |-> [st.original EXCEPT ![n] = NoStmt],
         stage        |-> [st.stage EXCEPT ![n] = stg],
         access_count |-> [st.access_count EXCEPT ![n] = 0],
         stmt_refs    |-> [st.stmt_refs EXCEPT ![n] = 1],
         dup_of       |-> [st.dup_of EXCEPT ![n] = dup]]

\* Original() as it would be if it returned the immediate original.
Original_OneStep(orig, n) ==
    IF orig[n] # NoStmt THEN orig[n] ELSE n

\* Original(): follow the original links to a node that has none
RECURSIVE Original(_, _)
Original(orig, n) ==
    IF orig[n] # NoStmt THEN Original(orig, orig[n]) ELSE n

\* SetOriginal with the roles of the two nodes exchanged.
SetOriginal_Swapped(st, n, _orig) ==
    IF st.original[_orig] = NoStmt
    THEN [st EXCEPT !.original[_orig] = n, !.stmt_refs[n] = @ + 1]
    ELSE st

\* SetOriginal without its test: the link is written on every call.
SetOriginal_Overwrites(st, n, _orig) ==
    [st EXCEPT !.original[n] = _orig, !.stmt_refs[_orig] = @ + 1]

\* SetOriginal with its test inverted.
SetOriginal_GuardInverted(st, n, _orig) ==
    IF st.original[n] # NoStmt
    THEN [st EXCEPT !.original[n] = _orig, !.stmt_refs[_orig] = @ + 1]
    ELSE st

\* SetOriginal(_orig) on node n: if (! original) original = _orig->Ref()
SetOriginal(st, n, _orig) ==
    IF st.original[n] = NoStmt
    THEN [st EXCEPT !.original[n] = _orig, !.stmt_refs[_orig] = @ + 1]
    ELSE st

\* IsReduced(c)
IsReduced(st, n) == st.stage[n] # "Raw"

\* Reduce(c) on node s, and TransformMe(new_me, c): a node in reduced form
\* reduces to itself; any other is replaced by a newly built node, whose
\* original is set before it is reduced in turn.  k is the number of
\* replacements it takes to reach reduced form.
RECURSIVE ReduceNode(_, _, _)
RECURSIVE TransformMe(_, _, _)
ReduceNode(st, s, k) ==
    IF IsReduced(st, s) THEN [st |-> st, ret |-> s]
    ELSE TransformMe(st, s, k)

TransformMe(st, this, k) ==
    LET st1    == NewStmt(st, IF k <= 1 THEN "Reduced" ELSE "Raw", NoStmt)
        new_me == st1.nstmts
    IN  ReduceNode(SetOriginal(st1, new_me, this), new_me, k - 1)

\* A statement as parsed.
Parse ==
    /\ nstmts < NStmt
    /\ Become(NewStmt(Nodes, "Raw", NoStmt))
    /\ last' = SCall("Stmt", nstmts + 1, nstmts + 1)
    /\ UNCHANGED <<vecVars, rc, crashed, recVars, unionVars, analyVars>>

\* Duplicate(): an independent copy, a new node in the stage of s
Duplicate(s) ==
    /\ s \in 1..nstmts /\ nstmts < NStmt
    /\ Become(NewStmt(Nodes, stage[s], s))
    /\ last' = SCall("Duplicate", s, nstmts + 1)
    /\ UNCHANGED <<vecVars, rc, crashed, recVars, unionVars, analyVars>>

\* Reduce(c)
Reduce(s, k) ==
    /\ s \in 1..nstmts
    /\ k \in 1..(NStmt - nstmts) \/ (k = 0 /\ IsReduced(Nodes, s))
    /\ LET r == ReduceNode(Nodes, s, k)
       IN  Become(r.st) /\ last' = SCall("Reduce", s, r.ret)
    /\ UNCHANGED <<vecVars, rc, crashed, recVars, unionVars, analyVars>>

\* Inline(inl): in place, on a reduced node
Inline(s) ==
    /\ s \in 1..nstmts /\ stage[s] = "Reduced"
    /\ stage' = [stage EXCEPT ![s] = "Inlined"]
    /\ last' = SCall("Inline", s, s)
    /\ UNCHANGED <<nstmts, original, access_count, stmt_refs, dup_of>>
    /\ UNCHANGED <<vecVars, rc, crashed, recVars, unionVars, analyVars>>

\* RegisterAccess(): access_count++
RegisterAccess(s) ==
    /\ s \in 1..nstmts /\ access_count[s] < MaxAccess
    /\ access_count' = [access_count EXCEPT ![s] = @ + 1]
    /\ last' = SCall("RegisterAccess", s, s)
    /\ UNCHANGED <<nstmts, original, stage, stmt_refs, dup_of>>
    /\ UNCHANGED <<vecVars, rc, crashed, recVars, unionVars, analyVars>>

\* A later SetOriginal(_orig) on a node that was given its original when it
\* was built: a transformation hands the node on as a replacement again,
\* for any statement, the node itself and the nodes derived from it
\* included.
CallSetOriginal(n, _orig) ==
    /\ n \in 1..nstmts /\ _orig \in 1..nstmts
    /\ original[n] # NoStmt
    /\ Become(SetOriginal(Nodes, n, _orig))
    /\ last' = SCall("SetOriginal", n, _orig)
    /\ UNCHANGED <<vecVars, rc, crashed, recVars, unionVars, analyVars>>

\* ------------------------------------------------------------- ScriptAnaly
NoFunc == 0
Funcs  == 1..NFunc

\* The passes of the driver, in the order it takes them, and the stage each
\* leaves a function body in.
Passes   == <<"reduce", "inline", "optimize", "lower">>
Produces == <<"Reduced", "Inlined", "Optimized", "Lowered">>

\* struct AnalyOpt as declared: every flag false, only_func null
DefaultOptions ==
    [activate |-> FALSE, only_func |-> NoFunc, inliner |-> FALSE,
     optimize |-> FALSE, compile |-> FALSE]

\* The flags a run may be started with; only_func stays null.
Options ==
    [activate : BOOLEAN, only_func : {NoFunc}, inliner : BOOLEAN,
     optimize : BOOLEAN, compile : BOOLEAN]

\* Whether the options call for pass p, taking the flags for granted.
Enabled_Always(p) == TRUE

\* Whether the options call for pass p: reduction always, the others by
\* their flag.
Enabled(p) ==
    CASE Passes[p] = "reduce"   -> TRUE
      [] Passes[p] = "inline"   -> analysis_options.inliner
      [] Passes[p] = "optimize" -> analysis_options.optimize
      [] Passes[p] = "lower"    -> analysis_options.compile

\* The recursion analysis run with any pass on a function.
AnalyzeRecursion_AnyPass(p, f) ==
    IF f \notin recursive
    THEN non_recursive_funcs \cup {f} ELSE non_recursive_funcs

\* The recursion analysis, driven by inlining: a function the inliner
\* finds not to call itself is entered in non_recursive_funcs.
AnalyzeRecursion(p, f) ==
    IF Passes[p] = "inline" /\ f \notin recursive
    THEN non_recursive_funcs \cup {f} ELSE non_recursive_funcs

\* Nothing analyzed: the options as declared, every body as parsed.
NoAnalysis ==
    /\ analysis_options = DefaultOptions
    /\ recursive = {}
    /\ body_stage = [f \in Funcs |-> "Raw"]
    /\ ran = [f \in Funcs |-> <<>>]
    /\ non_recursive_funcs = {}
    /\ driver = [pass |-> 1, func |-> 1, running |-> FALSE]

\* The driver moves on to the next pass without running a disabled one.
SkipPass ==
    /\ analysis_options.activate
    /\ driver.pass <= Len(Passes) /\ ~driver.running
    /\ ~Enabled(driver.pass)
    /\ driver' = [pass |-> driver.pass + 1, func |-> 1, running |-> FALSE]
    /\ UNCHANGED <<analysis_options, recursive, body_stage, ran, non_recursive_funcs>>
    /\ UNCHANGED <<vecVars, rc, crashed, last, recVars, unionVars, stmtVars>>

\* The driver starts the current pass on the current function.
StartPass ==
    /\ analysis_options.activate
    /\ driver.pass <= Len(Passes) /\ ~driver.running
    /\ Enabled(driver.pass)
    /\ driver' = [driver EXCEPT !.running = TRUE]
    /\ UNCHANGED <<analysis_options, recursive, body_stage, ran, non_recursive_funcs>>
    /\ UNCHANGED <<vecVars, rc, crashed, last, recVars, unionVars, stmtVars>>

\* The pass completes: the body is in the stage the pass produces, and the
\* driver goes to the next function, or to the next pass after the last.
FinishPass ==
    /\ driver.running
    /\ LET p == driver.pass
           f == driver.func
       IN  /\ body_stage' = [body_stage EXCEPT ![f] = Produces[p]]
           /\ ran' = [ran EXCEPT ![f] = Append(@, Passes[p])]
           /\ non_recursive_funcs' = AnalyzeRecursion(p, f)
           /\ driver' = IF f < NFunc
                        THEN [pass |-> p, func |-> f + 1, running |-> FALSE]
                        ELSE [pass |-> p + 1, func |-> 1, running |-> FALSE]
    /\ UNCHANGED <<analysis_options, recursive>>
    /\ UNCHANGED <<vecVars, rc, crashed, last, recVars, unionVars, stmtVars>>

\* ------------------------------------------------------- specifications
Heap0 ==
    /\ rc = [o \in Objs |-> 0]
    /\ crashed = FALSE
    /\ last = NoCall

\* A vector and the calls on it.
Init == Heap0 /\ ZAM_vector /\ ZAM_record /\ error = FALSE /\ NoUnion /\ NoStatements /\ NoAnalysis

Next ==
    \/ \E yt \in Types : SetYieldType(yt)
    \/ \E n \in 0..(MaxLen - 1), v \in Bits : SetElement(n, v)
    \/ \E n \in 0..(MaxLen - 1), v \in Bits : CopyElement(n, v)
    \/ \E n \in 0..MaxLen, v \in Bits : Insert(n, v)
    \/ \E n \in 0..(MaxLen - 1) : Remove(n)
    \/ \E n \in 0..MaxLen : Resize(n)
    \/ Destroy

Spec == Init /\ [][Next]_vars

\* A vector constructed with a managed, concrete yield type.
InitManaged == Init /\ general_yt = "string"

SpecManaged == InitManaged /\ [][Next]_vars

\* A record and the calls on it.
InitRecord ==
    /\ Heap0 /\ ZAM_record /\ error \in BOOLEAN /\ NoUnion /\ NoStatements /\ NoAnalysis
    /\ zvec = <<>> /\ general_yt = NullT /\ managed_yt = NullT /\ vecAlive = TRUE

NextRecord ==
    \/ \E f \in Fields, v \in Bits : Assign(f, v)
    \/ \E f \in Fields, v \in Bits : SetField(f, v)
    \/ \E f \in Fields : Lookup(f)
    \/ \E f \in Fields : DeleteField(f)
    \/ \E n \in 1..(Len(rt) + Len(redef)) : Grow(n)
    \/ \E f \in 0..(Len(rt) + Len(redef) - 1) : CallHasField(f)
    \/ DestroyRecord

SpecRecord == InitRecord /\ [][NextRecord]_vars

\* One conversion of a value to a cell and back, on a heap whose objects
\* have any number of references beforehand.
InitUnion ==
    /\ rc \in [Objs -> 0..MaxRc] /\ crashed = FALSE /\ last = NoCall
    /\ zvec = <<>> /\ general_yt = NullT /\ managed_yt = NullT /\ vecAlive = TRUE
    /\ ZAM_record /\ error = FALSE
    /\ NoUnion /\ NoStatements /\ NoAnalysis

NextUnion ==
    \/ \E v \in Bits, t \in ManagedTypes : Construct(v, t)
    \/ CallToVal
    \/ ReleaseCell
    \/ DropHandle

SpecUnion == InitUnion /\ [][NextUnion]_vars

\* Statements being parsed, duplicated, reduced, inlined and executed.
InitStmt ==
    /\ Heap0 /\ ZAM_record /\ error = FALSE
    /\ zvec = <<>> /\ general_yt = NullT /\ managed_yt = NullT /\ vecAlive = TRUE
    /\ NoUnion /\ NoStatements /\ NoAnalysis

NextStmt ==
    \/ Parse
    \/ \E s \in Stmts : Duplicate(s)
    \/ \E s \in Stmts, k \in 0..NStmt : Reduce(s, k)
    \/ \E s \in Stmts : Inline(s)
    \/ \E s \in Stmts : RegisterAccess(s)
    \/ \E n \in Stmts, o \in Stmts : CallSetOriginal(n, o)

SpecStmt == InitStmt /\ [][NextStmt]_vars

\* analyze_scripts over the functions of a script, for any setting of the
\* flags and any set of recursive functions.
InitAnaly ==
    /\ Heap0 /\ ZAM_record /\ error = FALSE
    /\ zvec = <<>> /\ general_yt = NullT /\ managed_yt = NullT /\ vecAlive = TRUE
    /\ NoUnion /\ NoStatements
    /\ analysis_options \in Options
    /\ recursive \in SUBSET Funcs
    /\ body_stage = [f \in Funcs |-> "Raw"]
    /\ ran = [f \in Funcs |-> <<>>]
    /\ non_recursive_funcs = {}
    /\ driver = [pass |-> 1, func |-> 1, running |-> FALSE]

NextAnaly ==
    \/ SkipPass
    \/ StartPass
    \/ FinishPass

SpecAnaly == InitAnaly /\ [][NextAnaly]_vars

\* ------------------------------------------------------------ properties
\* What a step that was the call `op` found and did.
Did(op) == last'.op = op

Managed == IsManagedYieldType

\* The heap a store found, the caller's reference on its argument counted.
Found == WithArg(rc, last'.v, Managed)

\* The heap when CopyElement returns, the reference the caller still holds
\* on its argument counted.
AtReturn == WithArg(rc', last'.v, Managed)

\* The vector a store at index n leaves: grown to n + 1 when n is out of
\* range, the new slots zeroed, and v in the cell at n.
Stored(n, v) ==
    /\ Len(zvec') = (IF n >= Len(zvec) THEN n + 1 ELSE Len(zvec))
    /\ \A i \in 1..Len(zvec) : i # n + 1 => zvec'[i] = zvec[i]
    /\ \A i \in (Len(zvec) + 1)..n : zvec'[i] = Nil
    /\ zvec'[n + 1] = v

\* The occupant a store at index n releases: the cell at n, the zero cell
\* when the vector grows.
Occupant(n) == IF n < Len(zvec) THEN zvec[n + 1] ELSE Nil

\* C1: in a vector with a managed yield type every slot holds nil or a
\* reference the container owns: no object is pointed to by more slots than
\* it has references.
C1_NoDanglingSlot ==
    (vecAlive /\ ~crashed /\ Managed) =>
        \A o \in Objs : Count(zvec, o) <= rc[o]

\* C2: Resize(n) with n < Size() on a managed vector releases, once each,
\* the non-nil elements at [n, Size()), and leaves [0, n) alone.
C2_ResizeReleasesEvicted ==
    [][(Did("Resize") /\ Managed /\ last'.n < Len(zvec)) =>
          /\ zvec' = SubSeq(zvec, 1, last'.n)
          /\ \A o \in Objs :
                Count(last'.rel, o) = Count(SubSeq(zvec, last'.n + 1, Len(zvec)), o)]_vars

\* C3: SetElement(k, x) with k >= Size() leaves size k + 1, the old cells
\* unchanged, the cells between zeroed and x at k; with k < Size() only the
\* cell at k changes.
C3_SetElementGrowsZeroFilled ==
    [][Did("SetElement") => Stored(last'.n, last'.v)]_vars

C3_Witness ==
    /\ last.op = "SetElement"
    /\ last.len0 = 0 /\ last.n = 1 /\ last.v # Nil
    /\ zvec = <<Nil, last.v>>

\* C4 as stated: SetElement releases the previous occupant once if the yield
\* type is managed, performs no release otherwise, and leaves the reference
\* count of the object carried by v as the call found it.
C4_CountOfArgumentUnchanged ==
    [][Did("SetElement") =>
          /\ last'.rel = (IF Managed THEN Released(Occupant(last'.n)) ELSE <<>>)
          /\ (Managed /\ last'.v # Nil) => rc'[last'.v] = Found[last'.v]]_vars

\* C4, amended: SetElement releases the previous occupant once if the yield
\* type is managed, performs no release otherwise, and takes no reference on
\* the object carried by v: its count changes only by the release of the
\* previous occupant, when that is the same object.
C4_SetElementTransfers ==
    [][Did("SetElement") =>
          /\ last'.rel = (IF Managed THEN Released(Occupant(last'.n)) ELSE <<>>)
          /\ (Managed /\ last'.v # Nil) =>
                rc'[last'.v] = Found[last'.v] - Count(last'.rel, last'.v)
          /\ ~Managed => rc' = rc]_vars

C4_Witness ==
    /\ last.op = "SetElement" /\ Managed
    /\ last.v # Nil /\ last.rel # <<>> /\ last.rel # <<last.v>>
    /\ rc[last.v] = 1 /\ rc[last.rel[1]] = 0

\* C5: CopyElement stores as SetElement does and, for a managed yield type,
\* takes one more reference on the object carried by v; it returns false
\* exactly when the yield type is managed and v is nil.
C5_CopyElementAcquires ==
    [][Did("CopyElement") =>
          /\ Stored(last'.n, last'.v)
          /\ last'.rel = (IF Managed THEN Released(Occupant(last'.n)) ELSE <<>>)
          /\ last'.ret = ~(Managed /\ last'.v = Nil)
          /\ (Managed /\ last'.v # Nil) =>
                AtReturn[last'.v] = Found[last'.v] - Count(last'.rel, last'.v) + 1
          /\ ~Managed => rc' = rc]_vars

C5_Witness ==
    /\ last.op = "CopyElement" /\ Managed
    /\ last.v # Nil /\ last.ret
    /\ rc[last.v] = 2 /\ Count(zvec, last.v) = 2

\* C6: Remove(index), index < Size(), shrinks the vector by one, keeps the
\* cells before index, moves each later cell down by one, and releases the
\* element that was at index, once, if the yield type is managed, and no
\* other element.
C6_RemoveShiftsAndReleases ==
    [][Did("Remove") =>
          LET i == last'.n + 1 IN
          /\ Len(zvec') = Len(zvec) - 1
          /\ \A j \in 1..(i - 1) : zvec'[j] = zvec[j]
          /\ \A j \in (i + 1)..Len(zvec) : zvec'[j - 1] = zvec[j]
          /\ last'.rel = (IF Managed THEN Released(zvec[i]) ELSE <<>>)
          /\ \A o \in Objs :
                rc'[o] = IF Managed /\ o = zvec[i] /\ rc[o] > 0 THEN rc[o] - 1
                         ELSE rc[o]]_vars

C6_Witness ==
    /\ last.op = "Remove" /\ Managed
    /\ last.len0 = 2 /\ last.n = 0 /\ Len(zvec) = 1
    /\ last.rel # <<>> /\ zvec[1] # Nil /\ zvec[1] # last.rel[1]

\* C7: once the declared yield type is concrete (not null, any or void), no
\* call changes the declared or the manage-relevant yield type.
C7_ConcreteYieldTypeIsFixed ==
    [][~IsUnsetYield(general_yt) =>
          general_yt' = general_yt /\ managed_yt' = managed_yt]_vars

C7_Witness ==
    /\ last.op = "SetYieldType"
    /\ ~IsUnsetYield(general_yt)
    /\ last.yt # general_yt

\* C8: IsManagedYieldType() does not change while the vector holds an
\* assigned element (here: a slot that is not the zero cell).
C8_ManagedFixedWhileAssigned ==
    [][(\E i \in 1..Len(zvec) : zvec[i] # Nil) =>
          (managed_yt' # NullT) = (managed_yt # NullT)]_vars

\* An optional field: one without a default value.
Optional(field) == ~HasDefault(field)

\* C9: Lookup on a field with no default sets the error flag exactly when
\* the field is absent (never assigned, or deleted since), whatever the flag
\* was; on a present field it returns the stored value; a failed Lookup
\* leaves the field absent.
C9_LookupErrorIffAbsent ==
    [][(Did("Lookup") /\ Optional(last'.n)) =>
          LET f == last'.n IN
          /\ error' = ~IsInRecord(f)
          /\ error' = (recent[f + 1] \in {"none", "DeleteField"})
          /\ IsInRecord(f) => last'.v = rzvec[f + 1]
          /\ is_in_record' = is_in_record
          /\ rzvec' = rzvec]_vars

C9_Witness ==
    /\ last.op = "Lookup" /\ Optional(last.n)
    /\ error /\ recent[last.n + 1] = "DeleteField"
    /\ ~IsInRecord(last.n)

\* What DeleteField does to an optional managed field: the field is absent
\* afterwards, the value of a present field is released once, and nothing is
\* released for an absent field.
DeleteFieldReleasesOnce(f) ==
    (Did("DeleteField") /\ last'.n = f) =>
        /\ ~HasField(f)'
        /\ last'.rel = (IF HasField(f) THEN Released(rzvec[f + 1]) ELSE <<>>)
        /\ \A o \in Objs : rc'[o] = rc[o] - Count(last'.rel, o)

\* C10 as stated: an optional managed field is absent from creation until the
\* first Assign to it (only an Assign makes it present), and DeleteField
\* leaves it absent, releasing the value held once and nothing when absent.
C10_AbsentUntilAssign ==
    /\ \A f \in Fields : (IsManaged(f) /\ Optional(f)) => ~HasField(f)
    /\ [][\A f \in Fields : (IsManaged(f) /\ Optional(f)) =>
             /\ (~HasField(f) /\ HasField(f)') => (Did("Assign") /\ last'.n = f)
             /\ DeleteFieldReleasesOnce(f)]_vars

\* C10, amended: the field is absent from creation until the first Assign or
\* SetField on it; the rest as stated.
C10_AbsentUntilAssignOrSetField ==
    /\ \A f \in Fields : (IsManaged(f) /\ Optional(f)) => ~HasField(f)
    /\ [][\A f \in Fields : (IsManaged(f) /\ Optional(f)) =>
             /\ (~HasField(f) /\ HasField(f)') =>
                   ((Did("Assign") \/ Did("SetField")) /\ last'.n = f)
             /\ DeleteFieldReleasesOnce(f)]_vars

C10_Witness ==
    /\ last.op = "DeleteField"
    /\ IsManaged(last.n) /\ Optional(last.n)
    /\ ~HasField(last.n)
    /\ last.rel # <<>> /\ rc[last.rel[1]] = 0

\* The heap a record call on field f found, the caller's reference on its
\* argument counted.
FoundIn(f) == WithArg(rc, last'.v, IsManaged(f))

\* What Assign(f, v) does to the record: f present and holding v, the old
\* value released once iff f was present and managed, every other field as
\* it was.
AssignStores(f) ==
    /\ is_in_record'[f + 1] /\ rzvec'[f + 1] = last'.v
    /\ last'.rel = (IF IsInRecord(f) /\ IsManaged(f)
                    THEN Released(rzvec[f + 1]) ELSE <<>>)
    /\ Len(rzvec') = Len(rzvec)
    /\ \A g \in Fields \ {f} :
          rzvec'[g + 1] = rzvec[g + 1] /\ is_in_record'[g + 1] = is_in_record[g + 1]

\* C11 as stated: Assign(field, v) leaves the field present and holding v,
\* releases the prior value once iff the field was present and managed,
\* leaves the reference count of the object carried by v as the call found
\* it, and changes no other field.
C11_AssignCountUnchanged ==
    [][Did("Assign") =>
          LET f == last'.n IN
          /\ AssignStores(f)
          /\ (IsManaged(f) /\ last'.v # Nil) =>
                rc'[last'.v] = FoundIn(f)[last'.v]]_vars

\* C11, amended: as stated, except that Assign takes no reference on the
\* object carried by v: every count changes only by the release of the prior
\* value, which lowers the count of v's object when the field held that same
\* object.
C11_AssignTransfers ==
    [][Did("Assign") =>
          LET f == last'.n IN
          /\ AssignStores(f)
          /\ \A o \in Objs : rc'[o] = FoundIn(f)[o] - Count(last'.rel, o)]_vars

C11_Witness ==
    /\ last.op = "Assign" /\ IsManaged(last.n)
    /\ last.v # Nil /\ last.rel # <<>> /\ last.rel # <<last.v>>
    /\ HasField(last.n) /\ rzvec[last.n + 1] = last.v
    /\ rc[last.v] = 1 /\ rc[last.rel[1]] = 0

\* The number of present managed fields that hold object o: the references
\* the record owns on o.
Held(o) ==
    Cardinality({f \in Fields : IsInRecord(f) /\ IsManaged(f) /\ rzvec[f + 1] = o})

\* The fields a call releases the values of: the field it is applied to for
\* Assign and DeleteField, every field for the destructor, none otherwise.
ReleasedFrom ==
    IF Did("~ZAM_record") THEN Fields
    ELSE IF Did("Assign") \/ Did("DeleteField") THEN {last'.n}
    ELSE {}

\* C12: a value is released only from a field that is present and managed,
\* never from an absent or unmanaged one, and every reference the record
\* was handed is released exactly once overall: while the record lives each
\* object has as many references as present managed fields hold it, and
\* none once the record is destroyed.
C12_ReleasedExactlyOnce ==
    /\ [](\A o \in Objs : rc[o] = (IF recAlive THEN Held(o) ELSE 0))
    /\ [][\A o \in Objs :
             Count(last'.rel, o) =
                Cardinality({f \in ReleasedFrom :
                    IsInRecord(f) /\ IsManaged(f) /\ rzvec[f + 1] = o})]_vars

C12_Witness ==
    /\ ~recAlive /\ last.op = "~ZAM_record"
    /\ recent[2] = "Assign" /\ recent[3] = "Assign"
    /\ Len(last.rel) = 2 /\ last.rel[1] # last.rel[2]
    /\ \A o \in Objs : rc[o] = 0

\* C20: Insert(index, v) lengthens the vector by one. With index < Size()
\* v is at index, the cells before index stay and each cell from index on is
\* found one position up; with index >= Size() v is appended at position
\* Size(), not at index, and no zeroed slot is created.
C20_InsertShiftsOrAppends ==
    [][Did("Insert") =>
          LET n == Len(zvec)
              i == IF last'.n < n THEN last'.n ELSE n
          IN  /\ Len(zvec') = n + 1
              /\ zvec'[i + 1] = last'.v
              /\ \A j \in 1..i : zvec'[j] = zvec[j]
              /\ \A j \in (i + 1)..n : zvec'[j + 1] = zvec[j]]_vars

C20_Witness ==
    /\ last.op = "Insert"
    /\ last.len0 = 1 /\ last.n = 2 /\ last.v # Nil
    /\ Len(zvec) = 2 /\ zvec[1] # last.v /\ zvec[2] = last.v

\* C13: after Grow(newSize) with newSize above the old size, Size() is
\* newSize, every new index is covered by the presence bitmap and absent,
\* so that HasField on it returns false, and the fields below the old size
\* keep their values and presence.
C13_GrowLeavesNewFieldsAbsent ==
    [][/\ Did("Grow") =>
             /\ Len(rzvec') = last'.n
             /\ \A i \in 1..Len(rzvec) :
                   rzvec'[i] = rzvec[i] /\ is_in_record'[i] = is_in_record[i]
             /\ Len(is_in_record') = last'.n
             /\ \A i \in (Len(rzvec) + 1)..last'.n : ~is_in_record'[i]
       /\ (Did("HasField") /\ last'.n >= Len(rt)) => ~last'.ret]_vars

\* The references the conversion holds on object o at this moment: the
\* cell's, until released, and the returned handle's, until dropped.
InFlight(o) ==
    (IF ucellLive /\ ucell = o THEN 1 ELSE 0)
        + (IF uhandleLive /\ uhandle = o THEN 1 ELSE 0)

RECURSIVE Up(_, _)
Up(n, k) ==
    IF k = 0 \/ n = NoStmt THEN n ELSE Up(original[n], k - 1)

\* The nodes on the chain of original links that starts at n.
ChainOf(n) == {Up(n, k) : k \in 0..NStmt} \ {NoStmt}

\* C15: Original() returns the root of the chain of original links: a node
\* with no link returns itself, and from any node of a chain of any length
\* it returns the node at the end of the chain, which has no link.
C15_OriginalIsRoot ==
    \A n \in 1..nstmts :
        LET r == Original(original, n)
        IN  /\ original[n] = NoStmt => r = n
            /\ r \in ChainOf(n)
            /\ original[r] = NoStmt
            /\ \A m \in ChainOf(n) : Original(original, m) = r

C15_Witness ==
    \E a, b, c \in 1..nstmts :
        /\ original[c] = b /\ original[b] = a /\ original[a] = NoStmt
        /\ Original(original, c) = a
        /\ last.op = "Reduce" /\ last.n = a /\ last.v = c

Asked ==
    <<TRUE, analysis_options.inliner, analysis_options.optimize,
      analysis_options.compile>>

\* The passes the options ask for, in the order reduce, inline, optimize,
\* lower, from pass p on.
RECURSIVE EnabledFrom(_)
EnabledFrom(p) ==
    IF p > Len(Passes) THEN <<>>
    ELSE (IF Asked[p] THEN <<Passes[p]>> ELSE <<>>) \o EnabledFrom(p + 1)

IsPrefix(a, b) == Len(a) <= Len(b) /\ a = SubSeq(b, 1, Len(a))

\* The place of a stage in Raw, Reduced, Inlined, Optimized, Lowered.
StageRank(st) ==
    CASE st = "Raw" -> 0 [] st = "Reduced" -> 1 [] st = "Inlined" -> 2
      [] st = "Optimized" -> 3 [] st = "Lowered" -> 4

\* The passes before pass p that the options call for.
EnabledBefore(p) ==
    SubSeq(EnabledFrom(1), 1, Len(EnabledFrom(1)) - Len(EnabledFrom(p)))

C19_NonRecursiveOnlyByInlining ==
    /\ \A f \in non_recursive_funcs :
          /\ \E i \in 1..Len(ran[f]) : ran[f][i] = "inline"
          /\ f \notin recursive
    /\ ~analysis_options.inliner => non_recursive_funcs = {}

C19_Witness ==
    /\ analysis_options.activate /\ driver.pass > Len(Passes)
    /\ ~analysis_options.inliner /\ analysis_options.optimize
    /\ recursive = {} /\ non_recursive_funcs = {}

\* No node is reachable from itself through original links: the walk from
\* any node runs off the end of its chain within NStmt links, so that
\* Original() on it returns.
Acyclic == \A n \in 1..nstmts : Up(n, NStmt) = NoStmt

=============================================================================
